---- MODULE Spec2Model ----
(***************************************************************************)
(* Model of the VAT 590 transaction protocol (src/vat_590/protocol.py).    *)
(*                                                                         *)
(* Text is a sequence of one-character strings, the wire carries a         *)
(* sequence of byte values (the ASCII codes).  Several callers share one   *)
(* protocol object and one transport; the transport is a double that       *)
(* records every call made on it.                                          *)
(***************************************************************************)
EXTENDS Integers, Sequences, FiniteSets, TLC

\* ------------------------------------------------------------------ bounds
MaxCalls == 2
MaxChunks == 3
MaxPayloadLen == 3
MaxEndlessReads == 3
MaxLiveCalls == 1
MaxFailed == 2
MaxSetterCalls == 2
ArrivalBurst == 8
\* clear reads the line in chunks of 25 bytes
ChunkSize == 25

Callers == {"a", "b"}
NoHolder == "nobody"

\* ------------------------------------------------------------------ text
CR == "\r"
LF == "\n"

Chars == {"E", "R", "X", "P", "i", ":", "0", "1", "2", "3", "4", "6", "7", " ", CR, LF,
          "5", "8", "9", "S", "V", "c", "s", "-"}

ord(ch) ==
    CASE ch = "E" -> 69  [] ch = "R" -> 82  [] ch = "X" -> 88  [] ch = "P" -> 80
      [] ch = "i" -> 105 [] ch = ":" -> 58  [] ch = "0" -> 48  [] ch = "1" -> 49
      [] ch = "3" -> 51  [] ch = "7" -> 55  [] ch = "6" -> 54  [] ch = " " -> 32
      [] ch = "2" -> 50  [] ch = "4" -> 52  [] ch = CR -> 13   [] ch = LF -> 10
      [] ch = "5" -> 53  [] ch = "8" -> 56  [] ch = "9" -> 57  [] ch = "S" -> 83
      [] ch = "V" -> 86  [] ch = "c" -> 99  [] ch = "s" -> 115 [] ch = "-" -> 45

chr(b) == CHOOSE ch \in Chars : ord(ch) = b

\* str.encode('ascii') / bytes.decode('ascii') on 7-bit text
encode(s) == [i \in 1..Len(s) |-> ord(s[i])]
decode(bs) == [i \in 1..Len(bs) |-> chr(bs[i])]

\* ''.join(parts)
RECURSIVE join(_)
join(parts) == IF parts = <<>> THEN <<>> ELSE Head(parts) \o join(Tail(parts))

\* s[n:]
dropPrefix(s, n) == SubSeq(s, n + 1, Len(s))

\* s.startswith(p)
startswith(s, p) == Len(p) <= Len(s) /\ SubSeq(s, 1, Len(p)) = p

isspace(ch) == ch \in {" ", CR, LF}

\* s.split(None): the maximal runs of non-whitespace characters, in order
RECURSIVE splitFrom(_, _)
splitFrom(s, cur) ==
    IF s = <<>> THEN (IF cur = <<>> THEN <<>> ELSE <<cur>>)
    ELSE IF isspace(Head(s))
         THEN (IF cur = <<>> THEN <<>> ELSE <<cur>>) \o splitFrom(Tail(s), <<>>)
         ELSE splitFrom(Tail(s), Append(cur, Head(s)))

\* variant: s.split(' '), every single blank separates, empty words are kept
RECURSIVE splitEach(_, _)
splitEach(s, cur) ==
    IF s = <<>> THEN <<cur>>
    ELSE IF isspace(Head(s))
         THEN <<cur>> \o splitEach(Tail(s), <<>>)
         ELSE splitEach(Tail(s), Append(cur, Head(s)))

split_each_blank(s) == splitEach(s, <<>>)

split(s) == splitFrom(s, <<>>)

\* ------------------------------------------------------------------ protocol.py, pure parts
terminator == <<CR, LF>>

\* variant: ' '.join(msg), a blank between the parts
RECURSIVE join_blank(_)
join_blank(parts) ==
    IF parts = <<>> THEN <<>>
    ELSE IF Tail(parts) = <<>> THEN Head(parts)
    ELSE Head(parts) \o <<" ">> \o join_blank(Tail(parts))

create_message_blank(header, data) == encode(join_blank(<<header>> \o data \o <<terminator>>))

create_message(header, data) == encode(join(<<header>> \o data \o <<terminator>>))

\* how a call ends: the value returned or the exception raised, and whether
\* the call wrote an error line to the logger
Returned(v) == [kind |-> "return", value |-> v, logged |-> FALSE]
Raised(k, v) == [kind |-> k, value |-> v, logged |-> FALSE]

\* variant: the header check made before the error check
parse_response_header_first(response, header) ==
    LET resp == decode(response) IN
    IF ~ startswith(resp, <<header[1]>>)
    THEN Raised("ValueError", resp)
    ELSE IF startswith(resp, <<"E", ":">>)
    THEN Raised("ErrorResponse", resp)
    ELSE Returned(split(dropPrefix(resp, Len(header))))

parse_response(response, header) ==
    LET resp == decode(response) IN
    IF startswith(resp, <<"E", ":">>)
    THEN Raised("ErrorResponse", resp)
    ELSE IF ~ startswith(resp, <<header[1]>>)
    THEN Raised("ValueError", resp)
    ELSE Returned(split(dropPrefix(resp, Len(header))))

\* ------------------------------------------------------------------ inputs
\* tags of registered commands (driver.py)
Tags == {<<"R", ":">>, <<"i", ":", "3", "0">>}
\* the requests made in the concurrent specification: a tag and its payload
Requests == {[header |-> <<"R", ":">>, data |-> <<<<"0", "1">>, <<"1">>>>],
             [header |-> <<"i", ":", "3", "0">>, data |-> <<>>]}

\* what the device answers in the concurrent specification
Replies == {<<"R", ":", "0", " ", "1">>, <<"E", ":", "0", "1", ":">>, <<>>}

RxFaults == {"timeout", "ioerror"}
\* a channel that never goes quiet under clear
Endless == "never"

\* strings over alphabet A of length at most n
RECURSIVE StringsUpTo(_, _)
StringsUpTo(A, n) ==
    IF n = 0 THEN {<<>>}
    ELSE LET shorter == StringsUpTo(A, n - 1)
         IN shorter \cup {Append(s, ch) : s \in shorter, ch \in A}

\* inputs of parse_response applied on its own: a tag of a registered command
\* and a reply text made of a leading part and payload characters
ParseTags == Tags \cup {<<"i", ":", "7", "6">>, <<"P", ":">>}
Leads == ParseTags \cup {<<"E", ":">>, <<"X", ":">>, <<"E">>, <<"i">>, <<"i", ":">>, <<>>}
PayloadStrs == StringsUpTo({"0", "1", " ", ":"}, MaxPayloadLen)
ReplyTexts == {p \o q : p \in Leads, q \in PayloadStrs}

\* ------------------------------------------------------------------ state
VARIABLES
    lock,      \* holder of the transport lock, or NoHolder
    pc,        \* per caller: "idle", "waiting", "entered", "sent", "clearing"
    cur,       \* per caller: the call in progress (or the last one)
    message,   \* per caller: the bytes built by create_message
    outcome,   \* per caller: how the last call ended
    reads,     \* per caller: read_bytes calls made by the current clear
    consumed,  \* per caller: chunks obtained by the current clear
    log,       \* the transport double's record of calls, in order
    ncalls,    \* calls started so far
    pure,      \* argument and result of a function applied on its own
    chan       \* the serial line seen byte by byte: what has arrived, what is on its way

vars == <<lock, pc, cur, message, outcome, reads, consumed, log, ncalls, pure, chan>>
protocolVars == <<lock, pc, cur, message, outcome, reads, consumed, log, ncalls, chan>>

NoCall == [op |-> "none", header |-> <<>>, data |-> <<>>, xid |-> 0,
           chunks |-> 0, tail |-> "timeout"]
NoOutcome == [kind |-> "none", value |-> <<>>, logged |-> FALSE]
NoChan == [phase |-> "start", sent |-> 0, own |-> 0, rx |-> <<>>, wire |-> <<>>,
           flushed |-> 0, left |-> 0, late |-> 0, result |-> NoOutcome]
NoPure == [fn |-> "none", header |-> <<>>, text |-> <<>>, result |-> NoOutcome]

InitProtocol ==
    /\ lock = NoHolder
    /\ pc = [c \in Callers |-> "idle"]
    /\ cur = [c \in Callers |-> NoCall]
    /\ message = [c \in Callers |-> <<>>]
    /\ outcome = [c \in Callers |-> NoOutcome]
    /\ reads = [c \in Callers |-> 0]
    /\ consumed = [c \in Callers |-> 0]
    /\ log = <<>>
    /\ ncalls = 0
    /\ chan = NoChan

Init == InitProtocol /\ pure = NoPure

\* ------------------------------------------------------------------ lock
\* acquire blocks until the lock is free
lockFree == lock = NoHolder

\* variant: the block is entered without taking the lock
enter_unlocked(c) == lock' = lock

\* "with self._transport:" entered by caller c
enter_with(c) == lockFree /\ lock' = c

\* variant: the lock is released on a return only, not when an exception
\* leaves the block
leave_release_on_return(c, out) ==
    /\ lock' = IF out.kind = "return" THEN NoHolder ELSE lock
    /\ outcome' = [outcome EXCEPT ![c] = out]
    /\ pc' = [pc EXCEPT ![c] = "idle"]

\* the with block is left by caller c, by a return or by an exception
leave_with(c, out) ==
    /\ lock' = NoHolder
    /\ outcome' = [outcome EXCEPT ![c] = out]
    /\ pc' = [pc EXCEPT ![c] = "idle"]

\* one call on the transport double, recorded with the lock holder at that time
Record(c, name, bytes, res) ==
    log' = Append(log, [caller |-> c, xid |-> cur[c].xid, op |-> name,
                        holder |-> lock, bytes |-> bytes, res |-> res])

\* a caller starts a call and comes to the with statement
begin(c, name, h, d, n, t) ==
    /\ pc[c] = "idle"
    /\ pc' = [pc EXCEPT ![c] = "waiting"]
    /\ ncalls < MaxCalls
    /\ ncalls' = ncalls + 1
    /\ cur' = [cur EXCEPT ![c] = [op |-> name, header |-> h, data |-> d,
                                  xid |-> ncalls + 1, chunks |-> n, tail |-> t]]
    /\ outcome' = [outcome EXCEPT ![c] = NoOutcome]
    /\ reads' = [reads EXCEPT ![c] = 0]
    /\ consumed' = [consumed EXCEPT ![c] = 0]
    /\ UNCHANGED <<lock, message, log, pure, chan>>

\* ------------------------------------------------------------------ send / receive
\* send_message: transport.write(raw_data); any exception -> CommunicationError
send_message(c, ok) ==
    /\ pc[c] = "entered"
    /\ Record(c, "write", message[c], IF ok THEN "ok" ELSE "ioerror")
    /\ IF ok
       THEN /\ pc' = [pc EXCEPT ![c] = "sent"]
            /\ UNCHANGED <<lock, outcome>>
       ELSE leave_with(c, Raised("CommunicationError", "Could not send data"))
    /\ UNCHANGED <<cur, message, reads, consumed, ncalls, pure, chan>>

\* variant: only a timeout is translated, another failure leaves as it is
read_response_fails_timeout_only(c, fault) ==
    /\ pc[c] = "sent"
    /\ Record(c, "read_until", <<>>, fault)
    /\ IF fault = "timeout"
       THEN leave_with(c, Raised("CommunicationError", "Could not read response"))
       ELSE leave_with(c, Raised("TransportError", fault))
    /\ UNCHANGED <<cur, message, reads, consumed, ncalls, pure, chan>>

\* variant: a failed read makes the call send its message again
read_response_fails_retry(c, fault) ==
    /\ pc[c] = "sent"
    /\ Record(c, "read_until", <<>>, fault)
    /\ pc' = [pc EXCEPT ![c] = "entered"]
    /\ UNCHANGED <<lock, outcome, cur, message, reads, consumed, ncalls, pure, chan>>

\* read_response, failing: transport.read_until raises; any exception
\* -> CommunicationError
read_response_fails(c, fault) ==
    /\ pc[c] = "sent"
    /\ Record(c, "read_until", <<>>, fault)
    /\ leave_with(c, Raised("CommunicationError", "Could not read response"))
    /\ UNCHANGED <<cur, message, reads, consumed, ncalls, pure, chan>>

\* variant: [0:-1], only the last byte is removed
read_response_strip_one(raw) == SubSeq(raw, 1, Len(raw) - 1)

\* read_response, succeeding: transport.read_until("\r\n")[0:-2]
read_response(raw) == SubSeq(raw, 1, Len(raw) - 2)

\* ------------------------------------------------------------------ query
query_call(c, h, d) == begin(c, "query", h, d, 0, "timeout")

query_enter(c) ==
    /\ pc[c] = "waiting" /\ cur[c].op = "query"
    /\ enter_with(c)
    /\ message' = [message EXCEPT ![c] = create_message(cur[c].header, cur[c].data)]
    /\ pc' = [pc EXCEPT ![c] = "entered"]
    /\ UNCHANGED <<cur, outcome, reads, consumed, log, ncalls, pure, chan>>

query_send(c, ok) == cur[c].op = "query" /\ send_message(c, ok)

query_read_fails(c, fault) == cur[c].op = "query" /\ read_response_fails(c, fault)

\* variant: a reply that does not parse makes query flush the line with
\* clear() before it leaves the with block
query_read_flushing(c, body) ==
    /\ cur[c].op = "query" /\ pc[c] = "sent"
    /\ LET raw == encode(body \o terminator)
           response == read_response(raw)
           parsed == parse_response(response, cur[c].header)
       IN /\ Record(c, "read_until", raw, "ok")
          /\ IF parsed.kind = "return"
             THEN leave_with(c, parsed) /\ UNCHANGED cur
             ELSE /\ pc' = [pc EXCEPT ![c] = "waiting"]
                  /\ cur' = [cur EXCEPT ![c].op = "clear"]
                  /\ UNCHANGED <<lock, outcome>>
    /\ UNCHANGED <<message, reads, consumed, ncalls, pure, chan>>

query_read(c, body) ==
    /\ cur[c].op = "query" /\ pc[c] = "sent"
    /\ LET raw == encode(body \o terminator)
           response == read_response(raw)
       IN /\ Record(c, "read_until", raw, "ok")
          /\ leave_with(c, parse_response(response, cur[c].header))
    /\ UNCHANGED <<cur, message, reads, consumed, ncalls, pure, chan>>

\* ------------------------------------------------------------------ write
write_call(c, h, d) == begin(c, "write", h, d, 0, "timeout")

write_enter(c) ==
    /\ pc[c] = "waiting" /\ cur[c].op = "write"
    /\ enter_with(c)
    /\ message' = [message EXCEPT ![c] = create_message(cur[c].header, cur[c].data)]
    /\ pc' = [pc EXCEPT ![c] = "entered"]
    /\ UNCHANGED <<cur, outcome, reads, consumed, log, ncalls, pure, chan>>

write_send(c, ok) == cur[c].op = "write" /\ send_message(c, ok)

write_read_fails(c, fault) == cur[c].op = "write" /\ read_response_fails(c, fault)

\* variant: the raise of line 81 active, unexpected data fails the write
write_read_raising(c, body) ==
    /\ cur[c].op = "write" /\ pc[c] = "sent"
    /\ LET raw == encode(body \o terminator)
           response == read_response(raw)
       IN /\ Record(c, "read_until", raw, "ok")
          /\ IF Len(response) > 0
             THEN leave_with(c, [Raised("CommunicationError", "Unexpected response data")
                                    EXCEPT !.logged = TRUE])
             ELSE leave_with(c, Returned("None"))
    /\ UNCHANGED <<cur, message, reads, consumed, ncalls, pure, chan>>

\* variant: the reply of a write is parsed as the reply of a query is
write_read_parsing(c, body) ==
    /\ cur[c].op = "write" /\ pc[c] = "sent"
    /\ LET raw == encode(body \o terminator)
           response == read_response(raw)
           parsed == parse_response(response, cur[c].header)
       IN /\ Record(c, "read_until", raw, "ok")
          /\ leave_with(c, IF parsed.kind = "return"
                           THEN [Returned("None") EXCEPT !.logged = Len(response) > 0]
                           ELSE parsed)
    /\ UNCHANGED <<cur, message, reads, consumed, ncalls, pure, chan>>

write_read(c, body) ==
    /\ cur[c].op = "write" /\ pc[c] = "sent"
    /\ LET raw == encode(body \o terminator)
           response == read_response(raw)
       IN /\ Record(c, "read_until", raw, "ok")
          /\ leave_with(c, [Returned("None") EXCEPT !.logged = Len(response) > 0])
    /\ UNCHANGED <<cur, message, reads, consumed, ncalls, pure, chan>>

\* ------------------------------------------------------------------ clear
\* the channel double yields n chunks and then ends with t: a timeout or
\* another I/O failure
clear_call(c, n, t) == begin(c, "clear", <<>>, <<>>, n, t)

clear_enter(c) ==
    /\ pc[c] = "waiting" /\ cur[c].op = "clear"
    /\ enter_with(c)
    /\ pc' = [pc EXCEPT ![c] = "clearing"]
    /\ UNCHANGED <<cur, message, outcome, reads, consumed, log, ncalls, pure, chan>>

\* variant: the loop is left after the first read that yields data
clear_read_once(c) ==
    /\ pc[c] = "clearing"
    /\ cur[c].tail = Endless => reads[c] < MaxEndlessReads
    /\ reads' = [reads EXCEPT ![c] = @ + 1]
    /\ IF consumed[c] < cur[c].chunks \/ cur[c].tail = Endless
       THEN /\ Record(c, "read_bytes", <<>>, "chunk")
            /\ consumed' = [consumed EXCEPT ![c] = @ + 1]
            /\ leave_with(c, Returned(TRUE))
       ELSE /\ Record(c, "read_bytes", <<>>, cur[c].tail)
            /\ UNCHANGED consumed
            /\ IF cur[c].tail = "timeout"
               THEN leave_with(c, Returned(TRUE))
               ELSE leave_with(c, Raised("TransportError", "ioerror"))
    /\ UNCHANGED <<cur, message, ncalls, pure, chan>>

\* one pass of the loop: transport.read_bytes(25). The channel yields the
\* chunks of the call and then times out or fails; an endless channel yields a
\* chunk on every read (followed for MaxEndlessReads reads).
clear_read(c) ==
    /\ pc[c] = "clearing"
    /\ cur[c].tail = Endless => reads[c] < MaxEndlessReads
    /\ reads' = [reads EXCEPT ![c] = @ + 1]
    /\ IF consumed[c] < cur[c].chunks \/ cur[c].tail = Endless
       THEN /\ Record(c, "read_bytes", <<>>, "chunk")
            /\ consumed' = [consumed EXCEPT ![c] = @ + 1]
            /\ UNCHANGED <<lock, outcome, pc>>
       ELSE /\ Record(c, "read_bytes", <<>>, cur[c].tail)
            /\ UNCHANGED consumed
            /\ IF cur[c].tail = "timeout"
               THEN leave_with(c, Returned(TRUE))
               ELSE leave_with(c, Raised("TransportError", "ioerror"))
    /\ UNCHANGED <<cur, message, ncalls, pure, chan>>

Next ==
    \E c \in Callers :
        \/ \E r \in Requests : query_call(c, r.header, r.data)
        \/ query_enter(c)
        \/ \E ok \in BOOLEAN : query_send(c, ok)
        \/ \E fault \in RxFaults : query_read_fails(c, fault)
        \/ \E body \in Replies : query_read(c, body)
        \/ \E r \in Requests : write_call(c, r.header, r.data)
        \/ write_enter(c)
        \/ \E ok \in BOOLEAN : write_send(c, ok)
        \/ \E fault \in RxFaults : write_read_fails(c, fault)
        \/ \E body \in Replies : write_read(c, body)
        \/ \E n \in 0..MaxChunks, t \in RxFaults : clear_call(c, n, t)
        \/ clear_enter(c)
        \/ clear_read(c)

Spec == Init /\ [][Next]_vars

\* ------------------------------------------------------------------ parse_response on its own
InitParse ==
    /\ InitProtocol
    /\ pure \in {[fn |-> "none", header |-> h, text |-> t, result |-> NoOutcome] :
                    h \in ParseTags, t \in ReplyTexts}

apply_parse_response ==
    /\ pure.fn = "none"
    /\ pure' = [pure EXCEPT !.fn = "parse_response",
                            !.result = parse_response(encode(pure.text), pure.header)]
    /\ UNCHANGED protocolVars

\* the receiving half of query: read_response, then parse_response, for a
\* device that answers the text followed by the terminator
apply_receive ==
    /\ pure.fn = "none"
    /\ LET response == read_response(encode(pure.text \o terminator))
       IN pure' = [fn |-> "receive", header |-> pure.header, text |-> pure.text,
                   response |-> response,
                   result |-> parse_response(response, pure.header)]
    /\ UNCHANGED protocolVars

NextParse == apply_parse_response \/ apply_receive

SpecParse == InitParse /\ [][NextParse]_vars

\* ================================================================== properties
White == {" ", "\r", "\n"}
ErrorMarker == <<"E", ":">>

Applied == pure.fn = "parse_response"
IsErrorReply(t) == Len(t) >= 2 /\ t[1] = "E" /\ t[2] = ":"
HasTag(t, h) == Len(t) >= Len(h) /\ \A i \in 1..Len(h) : t[i] = h[i]
After(t, n) == [i \in 1..(IF Len(t) > n THEN Len(t) - n ELSE 0) |-> t[i + n]]

\* the whitespace-separated words of t, stated by position
RunStarts(t) == {i \in 1..Len(t) : t[i] \notin White /\ (i = 1 \/ t[i - 1] \in White)}
RunEnd(t, i) == CHOOSE j \in i..Len(t) :
                    /\ \A m \in i..j : t[m] \notin White
                    /\ (j = Len(t) \/ t[j + 1] \in White)
IsWordList(tokens, t) ==
    /\ Len(tokens) = Cardinality(RunStarts(t))
    /\ \A i \in RunStarts(t) :
          tokens[Cardinality({j \in RunStarts(t) : j < i}) + 1] = SubSeq(t, i, RunEnd(t, i))

\* C3: a reply that is not an error reply and does not start with the whole
\* expected tag makes parse_response fail with a header mismatch (ValueError).
C3_HeaderMismatchOnWrongTag ==
    (Applied /\ ~ IsErrorReply(pure.text) /\ ~ HasTag(pure.text, pure.header))
        => pure.result.kind = "ValueError"

\* C4 as stated: the error raised for a reply beginning with "E:" carries the
\* part of the reply after the marker.
C4_ErrorCarriesCodeAfterMarker ==
    (Applied /\ IsErrorReply(pure.text))
        => /\ pure.result.kind = "ErrorResponse"
           /\ pure.result.value = After(pure.text, 2)

\* C4 amended: a reply beginning with "E:" makes parse_response fail with
\* ErrorResponse whatever the expected tag is, and the error carries the whole
\* decoded reply, marker included ("E:000001:" for the reply "E:000001:").
C4_ErrorCarriesWholeReply ==
    /\ (Applied /\ IsErrorReply(pure.text))
          => /\ pure.result.kind = "ErrorResponse"
             /\ pure.result.value = pure.text
    /\ parse_response(encode(<<"E", ":", "0", "0", "0", "0", "0", "1", ":">>), <<"R", ":">>)
          = Raised("ErrorResponse", <<"E", ":", "0", "0", "0", "0", "0", "1", ":">>)

C4_Witness ==
    /\ Applied /\ IsErrorReply(pure.text) /\ Len(pure.text) > 2
    /\ pure.header = <<"R", ":">>
    /\ pure.result.kind = "ErrorResponse"

\* C5: a reply that starts with the expected tag and is not an error reply
\* yields the whitespace-separated words of the text after the tag, in order;
\* "R:001234" with tag "R:" yields ["001234"], a bare tag yields the empty list.
C5_TokensAfterTag ==
    /\ (Applied /\ ~ IsErrorReply(pure.text) /\ HasTag(pure.text, pure.header))
          => /\ pure.result.kind = "return"
             /\ IsWordList(pure.result.value, After(pure.text, Len(pure.header)))
    /\ parse_response(encode(<<"R", ":", "0", "0", "1", "2", "3", "4">>), <<"R", ":">>)
          = Returned(<< <<"0", "0", "1", "2", "3", "4">> >>)
    /\ \A h \in ParseTags : parse_response(encode(h), h) = Returned(<<>>)

C5_Witness ==
    /\ Applied /\ ~ IsErrorReply(pure.text) /\ HasTag(pure.text, pure.header)
    /\ pure.result.kind = "return"
    /\ Len(pure.result.value) = 2

\* ------------------------------------------------------------------ exchanges on the shared channel
InCall(c) == pc[c] \in {"entered", "sent", "clearing"}
Finished(c, name) == pc[c] = "idle" /\ cur[c].op = name
Ops(x) == SelectSeq(log, LAMBDA e : e.xid = x)
Failure == {"CommunicationError", "ErrorResponse", "ValueError", "TransportError"}

\* C1: every transport call is made by the lock holder, a caller holds the lock
\* from before its first transport call until its call ends, and the transport
\* calls of one exchange are contiguous in the channel's record (a call of an
\* exchange that has a later call is directly followed by a call of the same
\* exchange).
C1_NoInterleaving ==
    /\ \A i \in 1..Len(log) : log[i].holder = log[i].caller
    /\ \A c \in Callers : InCall(c) => lock = c
    /\ \A i, k \in 1..Len(log) :
          (i < k /\ log[i].xid = log[k].xid) => log[i + 1].xid = log[i].xid

C1_Witness ==
    /\ pc["a"] = "sent" /\ cur["a"].op = "query"
    /\ pc["b"] = "waiting" /\ cur["b"].op = "query"
    /\ lock = "a"

\* C2: a caller whose call has ended, by a return or by any error, does not
\* hold the lock.
C2_FinishedCallHoldsNoLock ==
    \A c \in Callers : (pc[c] = "idle" \/ outcome[c].kind # "none") => lock # c

C2_Witness ==
    /\ outcome["a"].kind = "CommunicationError"
    /\ outcome["b"].kind \in {"ErrorResponse", "ValueError"}
    /\ lock = NoHolder

\* C6: query and write make the same transport calls, one write and then, if
\* the write succeeded, one read_until; a write whose reply was read ends by a
\* normal return whatever the reply is, a non-empty reply being only logged.
C6_WriteToleratesAnyReply ==
    \A c \in Callers :
        (Finished(c, "write") \/ Finished(c, "query")) =>
            LET ops == Ops(cur[c].xid) IN
            /\ Len(ops) \in {1, 2}
            /\ ops[1].op = "write"
            /\ (Len(ops) = 2) = (ops[1].res = "ok")
            /\ Len(ops) = 2 => ops[2].op = "read_until"
            /\ (cur[c].op = "write" /\ Len(ops) = 2 /\ ops[2].res = "ok")
                  => outcome[c].kind = "return"

C6_Witness ==
    \E c \in Callers :
        /\ Finished(c, "write") /\ outcome[c].kind = "return" /\ outcome[c].logged
        /\ Len(Ops(cur[c].xid)) = 2

\* C7: against a channel that yields n chunks and then times out, clear makes
\* n+1 reads, obtains n chunks and returns True.
C7_ClearReadsUntilTimeout ==
    \A c \in Callers :
        (Finished(c, "clear") /\ cur[c].tail = "timeout") =>
            LET ops == Ops(cur[c].xid) IN
            /\ consumed[c] = cur[c].chunks
            /\ reads[c] = cur[c].chunks + 1
            /\ Len(ops) = cur[c].chunks + 1
            /\ \A i \in 1..Len(ops) : ops[i].op = "read_bytes"
            /\ outcome[c].kind = "return" /\ outcome[c].value = TRUE

C7_Witness ==
    \E c \in Callers :
        /\ Finished(c, "clear") /\ cur[c].tail = "timeout" /\ cur[c].chunks = 3
        /\ outcome[c].kind = "return"

\* C8: a chunk read of clear that fails otherwise than by a timeout makes clear
\* end with CommunicationError, the lock released.
C8_ClearWrapsIOFailure ==
    \A c \in Callers :
        (Finished(c, "clear") /\ cur[c].tail = "ioerror") =>
            /\ outcome[c].kind = "CommunicationError"
            /\ lock # c

\* C9: in query and write a failed transport write and a failed or timed-out
\* read_until end the call with CommunicationError, and no read follows a
\* failed write.
C9_TransportFailureIsCommunicationError ==
    \A c \in Callers :
        (Finished(c, "write") \/ Finished(c, "query")) =>
            LET ops == Ops(cur[c].xid) IN
            /\ ops[1].res # "ok" => (Len(ops) = 1 /\ outcome[c].kind = "CommunicationError")
            /\ (Len(ops) = 2 /\ ops[2].res # "ok") => outcome[c].kind = "CommunicationError"

C9_Witness ==
    /\ Finished("a", "query") /\ Ops(cur["a"].xid)[1].res = "ioerror"
    /\ Finished("b", "write") /\ Len(Ops(cur["b"].xid)) = 2
    /\ Ops(cur["b"].xid)[2].res = "timeout"
    /\ outcome["a"].kind = "CommunicationError" /\ outcome["b"].kind = "CommunicationError"

\* C10: the bytes written for a call are the tag, then the payload fragments
\* in argument order without separators, then carriage return and line feed.
RECURSIVE SumLen(_)
SumLen(d) == IF d = <<>> THEN 0 ELSE Len(Head(d)) + SumLen(Tail(d))

WireForm(bytes, h, d) ==
    /\ Len(bytes) = Len(h) + SumLen(d) + 2
    /\ bytes[Len(bytes) - 1] = 13 /\ bytes[Len(bytes)] = 10
    /\ \A i \in 1..Len(h) : bytes[i] = ord(h[i])
    /\ \A k \in 1..Len(d) : \A i \in 1..Len(d[k]) :
          bytes[Len(h) + SumLen(SubSeq(d, 1, k - 1)) + i] = ord(d[k][i])

C10_WireFormat ==
    \A c \in Callers : \A i \in 1..Len(log) :
        (log[i].xid = cur[c].xid /\ log[i].op = "write")
            => WireForm(log[i].bytes, cur[c].header, cur[c].data)

C10_Witness ==
    /\ pc["a"] = "sent" /\ Len(cur["a"].data) = 2
    /\ pc["b"] = "idle" /\ cur["b"].op = "write" /\ cur["b"].data = <<>>
    /\ Len(Ops(cur["b"].xid)) = 2

\* C11: a call of query or write makes one transport write and at most one
\* read_until; a communication error, a device error reply or a header
\* mismatch ends the call after that one attempt and is what the caller gets.
CountOf(ops, name) == Cardinality({i \in 1..Len(ops) : ops[i].op = name})

C11_NoRetry ==
    \A c \in Callers :
        cur[c].op \in {"query", "write"} =>
            LET ops == Ops(cur[c].xid) IN
            /\ CountOf(ops, "write") <= 1
            /\ CountOf(ops, "read_until") <= 1
            /\ CountOf(ops, "read_bytes") = 0
            /\ pc[c] = "idle" => CountOf(ops, "write") = 1
            /\ (\E i \in 1..Len(ops) : ops[i].res # "ok")
                  => (pc[c] = "idle" /\ outcome[c].kind = "CommunicationError")
            /\ (pc[c] = "idle" /\ cur[c].op = "query" /\ Len(ops) = 2
                /\ ops[2].res = "ok" /\ IsErrorReply(decode(read_response(ops[2].bytes))))
                  => outcome[c].kind = "ErrorResponse"

C11_Witness ==
    /\ Finished("a", "query") /\ outcome["a"].kind = "ValueError"
    /\ Len(Ops(cur["a"].xid)) = 2
    /\ Finished("b", "write") /\ outcome["b"].kind = "CommunicationError"
    /\ Len(Ops(cur["b"].xid)) = 2

\* C17: a write answered by an error reply ("E:...") ends by a normal return,
\* as a write answered by an empty reply does; the reply is only logged.
C17_WriteSwallowsDeviceError ==
    \A c \in Callers :
        Finished(c, "write") =>
            LET ops == Ops(cur[c].xid) IN
            (Len(ops) = 2 /\ ops[2].res = "ok"
             /\ Len(ops[2].bytes) >= 2 /\ ops[2].bytes[1] = 69 /\ ops[2].bytes[2] = 58)
                => /\ outcome[c].kind = "return"
                   /\ outcome[c].value = "None"
                   /\ outcome[c].logged

C17_Witness ==
    \E c \in Callers :
        /\ Finished(c, "write") /\ outcome[c].kind = "return" /\ outcome[c].logged
        /\ Len(Ops(cur[c].xid)) = 2
        /\ Ops(cur[c].xid)[2].bytes = <<69, 58, 48, 49, 58, 13, 10>>

\* C18: read_response hands on the bytes of the reply without the two
\* terminator bytes and otherwise unchanged, so a query answered by tag,
\* payload, CR, LF returns the whitespace-separated words of the payload.
Received == pure.fn = "receive"

C18_ReceiveStripsTerminator ==
    Received =>
        /\ Len(pure.response) = Len(pure.text)
        /\ \A i \in 1..Len(pure.text) : pure.response[i] = ord(pure.text[i])
        /\ (HasTag(pure.text, pure.header) /\ ~ IsErrorReply(pure.text))
              => /\ pure.result.kind = "return"
                 /\ IsWordList(pure.result.value, After(pure.text, Len(pure.header)))

C18_Witness ==
    /\ Received /\ HasTag(pure.text, pure.header)
    /\ Len(pure.response) = Len(pure.header) + 3
    /\ pure.result.kind = "return" /\ Len(pure.result.value) = 2

\* ================================================================== constants.py
\* a dict literal is written as its entries <<label, code>> in source order
PRESSURE_READING ==
    <<<<"Negative", <<"-">>>>,
     <<"Positive", <<"0">>>>>>

OPERATION ==
    <<<<"Normal operation", <<"0">>>>,
     <<"Simulation running", <<"1">>>>>>

OPERATION_MODE ==
    <<<<"Local Operation", <<"0">>>>,
     <<"Remote Operation", <<"1">>>>,
     <<"Locked Remote Operation", <<"2">>>>>>

WARNING ==
    <<<<"No warning", <<"0">>>>,
     <<"Warning present", <<"1">>>>>>

\* variant: the last two states share a code
STATUS_shared_code ==
    <<<<"Initialization", <<"0">>>>,
     <<"Synchronization", <<"1">>>>,
     <<"Position control", <<"2">>>>,
     <<"Closed", <<"3">>>>,
     <<"Opened", <<"4">>>>,
     <<"Pressure control", <<"5">>>>,
     <<"Hold", <<"6">>>>,
     <<"Learn", <<"7">>>>,
     <<"Interlock (OPEN by digital input)", <<"8">>>>,
     <<"Interlock (CLOSED by digital input)", <<"9">>>>,
     <<"Power failure", <<"C">>>>,
     <<"Safety mode", <<"D">>>>,
     <<"Fatal error", <<"D">>>>>>

STATUS ==
    <<<<"Initialization", <<"0">>>>,
     <<"Synchronization", <<"1">>>>,
     <<"Position control", <<"2">>>>,
     <<"Closed", <<"3">>>>,
     <<"Opened", <<"4">>>>,
     <<"Pressure control", <<"5">>>>,
     <<"Hold", <<"6">>>>,
     <<"Learn", <<"7">>>>,
     <<"Interlock (OPEN by digital input)", <<"8">>>>,
     <<"Interlock (CLOSED by digital input)", <<"9">>>>,
     <<"Power failure", <<"C">>>>,
     <<"Safety mode", <<"D">>>>,
     <<"Fatal error", <<"E">>>>>>

SERVICE ==
    <<<<"Not required", <<"0">>>>,
     <<"Requested", <<"1">>>>>>

LEARN_DATA ==
    <<<<"Present", <<"0">>>>,
     <<"Not present", <<"1">>>>>>

POWER_FAILURE_BATTERY ==
    <<<<"Ready", <<"0">>>>,
     <<"Not ready", <<"1">>>>>>

COMPRESSED_AIR_SUPPLY ==
    <<<<"OK", <<"0">>>>,
     <<"Not OK", <<"1">>>>>>

POSITION_RANGE_CODE ==
    <<<<"0 - 1000", <<"0">>>>,
     <<"0 - 10 000", <<"1">>>>,
     <<"0 - 100 000", <<"2">>>>>>

BAUD_RATE ==
    <<<<"600", <<"0">>>>,
     <<"1200", <<"1">>>>,
     <<"2400", <<"2">>>>,
     <<"4800", <<"3">>>>,
     <<"9600", <<"4">>>>,
     <<"19.2k", <<"5">>>>,
     <<"38.4k", <<"6">>>>,
     <<"57.6k", <<"7">>>>,
     <<"115.2k", <<"8">>>>>>

PARITY_BIT ==
    <<<<"even", <<"0">>>>,
     <<"odd", <<"1">>>>,
     <<"mark", <<"2">>>>,
     <<"space", <<"3">>>>,
     <<"no", <<"4">>>>>>

DATA_LENGTH ==
    <<<<"7 bit", <<"0">>>>,
     <<"8 bit", <<"1">>>>>>

STOP_BITS ==
    <<<<"1", <<"0">>>>,
     <<"2", <<"1">>>>>>

DIGITAL_INPUT ==
    <<<<"not inverted", <<"0">>>>,
     <<"inverted", <<"1">>>>,
     <<"disabled", <<"2">>>>>>

ERROR_INDEX ==
    <<<<"Parity error", "E:000001:">>,
     <<"Input buffer overflow (too many characters)", "E:000002:">>,
     <<"Framing error (data length, number of stop bits)", "E:000003:">>,
     <<"<CR> or <LF> missing", "E:000010:">>,
     <<": missing", "E:000011:">>,
     <<"Invalid number of characters (between : and <CR><LF>)", "E:000012:">>,
     <<"Unknown command", "E:000020:">>,
     <<"Unknown command", "E:000021:">>,
     <<"Invalid value", "E:000022:">>,
     <<"Invalid value", "E:000023:">>,
     <<"Value out of range", "E:000030:">>,
     <<"Command not applicable for hardware configuration", "E:000041:">>,
     <<"Command not accepted due to local operation", "E:000080:">>,
     <<"Command not accepted due to synchronization, CLOSED or OPEN by digital input, safety mode of fatal error", "E:000082:">>>>

CLOSE_OPEN ==
    <<<<"close", <<"0">>>>,
     <<"open", <<"1">>>>>>

NO_YES ==
    <<<<"no", <<"0">>>>,
     <<"yes", <<"1">>>>>>

VALVE_FAILURE_POSITION ==
    <<<<"valve will close", <<"0">>>>,
     <<"valve will open", <<"1">>>>,
     <<"valve stay on actual position", <<"2">>>>>>

SYNCHRONIZATION_START ==
    <<<<"standard", <<"0">>>>,
     <<"special command", <<"1">>>>,
     <<"open command", <<"2">>>>,
     <<"all move commands", <<"3">>>>,
     <<"always", <<"4">>>>>>

SYNCHRONIZATION_MODE ==
    <<<<"short", <<"0">>>>,
     <<"full", <<"1">>>>>>

POWER_FAILURE_OPTION ==
    <<<<"power failure option not equipped", <<"0">>>>,
     <<"power failure option equipped", <<"1">>>>>>

SENSOR_POWER_SUPPLY ==
    <<<<"+- 15V sensor power supply not equipped", <<"0">>>>,
     <<"+- 15V sensor power supply equipped", <<"1">>>>>>

RS232_INTERFACE_ANALOG ==
    <<<<"RS232 interface without analog outputs", <<"2">>>>,
     <<"RS232 interface with analog outputs", <<"3">>>>>>

SENSOR_VERSION ==
    <<<<"1 sensor version", <<"1">>>>,
     <<"2 sensor version", <<"2">>>>>>

\* ------------------------------------------------------------------ dict
\* the keys of the dict built from a literal
dict_keys(entries) == {entries[i][1] : i \in 1..Len(entries)}

\* d[k] for the dict built from a literal: of two entries with one key the
\* later one stays
dict_get(entries, k) ==
    LET at == {i \in 1..Len(entries) : entries[i][1] = k}
        last == CHOOSE i \in at : \A j \in at : j <= i
    IN entries[last][2]

\* ------------------------------------------------------------------ field and frame codecs
\* enumeration field: label -> code by the table, code -> label by the
\* reverse table
mapping_encode(table, label) == dict_get(table, label)
mapping_decode(table, code) ==
    CHOOSE l \in dict_keys(table) : dict_get(table, l) = code

StringField(w) == [width |-> w, kind |-> "String", table |-> <<>>]
MappingField(w, t) == [width |-> w, kind |-> "Mapping", table |-> t]

field_encode(f, v) == IF f.kind = "String" THEN v ELSE mapping_encode(f.table, v)
field_decode(f, code) == IF f.kind = "String" THEN code ELSE mapping_decode(f.table, code)

RECURSIVE total_width(_)
total_width(frame) ==
    IF frame = <<>> THEN 0 ELSE Head(frame).width + total_width(Tail(frame))

\* frame encode: the encoded fields one after another
frame_encode(frame, values) == join([k \in 1..Len(frame) |-> field_encode(frame[k], values[k])])

\* a code the field can decode: any text for a String, a code of the table
\* for an enumeration
field_accepts(f, code) ==
    \/ f.kind = "String"
    \/ \E l \in dict_keys(f.table) : dict_get(f.table, l) = code

\* the characters of the k-th field: its width, after the widths before it
field_slice(frame, raw, k) ==
    LET off == total_width(SubSeq(frame, 1, k - 1))
    IN SubSeq(raw, off + 1, off + frame[k].width)

\* frame decode: the length must be the sum of the widths; then each field
\* takes its width in characters, in order, and decodes them
frame_decode(frame, raw) ==
    IF Len(raw) # total_width(frame)
    THEN Raised("FrameLengthMismatch", raw)
    ELSE IF \E k \in 1..Len(frame) : ~ field_accepts(frame[k], field_slice(frame, raw, k))
    THEN Raised("ValueError", raw)
    ELSE Returned([k \in 1..Len(frame) |->
            field_decode(frame[k], field_slice(frame, raw, k))])

\* ------------------------------------------------------------------ driver.py, command schemas
RESERVED == << <<"Reserved", <<"0">>>> >>

ERRORS ==
    <<<<"No errors", <<"0", "0", "0", "0", "0", "0", "0", "0">>>>,
      <<"Sensor 1 signal converter failure.", <<"0", "1", "0", "0", "0", "0", "0", "0">>>>,
      <<"Firmware memory failure.", <<"0", "0", "0", "1", "0", "0", "0", "0">>>>>>

interface_config ==
    <<MappingField(1, BAUD_RATE), MappingField(1, PARITY_BIT),
      MappingField(1, DATA_LENGTH), MappingField(1, STOP_BITS),
      MappingField(1, RESERVED), MappingField(1, DIGITAL_INPUT),
      MappingField(1, DIGITAL_INPUT), MappingField(1, RESERVED)>>

device_status ==
    <<MappingField(1, OPERATION_MODE), MappingField(1, STATUS),
      MappingField(1, POWER_FAILURE_BATTERY), MappingField(1, OPERATION)>>

\* variant: the pressure field declared one character short
assembly_short_pressure ==
    <<StringField(6), MappingField(1, PRESSURE_READING), StringField(6),
      MappingField(1, OPERATION_MODE), MappingField(1, STATUS),
      MappingField(1, WARNING)>>

assembly ==
    <<StringField(6), MappingField(1, PRESSURE_READING), StringField(7),
      MappingField(1, OPERATION_MODE), MappingField(1, STATUS),
      MappingField(1, WARNING)>>

warnings ==
    <<MappingField(1, SERVICE), MappingField(1, LEARN_DATA),
      MappingField(1, POWER_FAILURE_BATTERY), MappingField(1, COMPRESSED_AIR_SUPPLY)>>

valve_configuration ==
    <<MappingField(1, CLOSE_OPEN), MappingField(1, CLOSE_OPEN),
      MappingField(1, NO_YES), MappingField(1, NO_YES),
      MappingField(1, VALVE_FAILURE_POSITION), MappingField(1, VALVE_FAILURE_POSITION),
      MappingField(1, SYNCHRONIZATION_START), MappingField(1, SYNCHRONIZATION_MODE)>>

range_config == <<StringField(1), StringField(7)>>

\* the commands whose body is a frame, and those whose body is one enumeration
FrameCommands ==
    [interface_config |-> interface_config, device_status |-> device_status,
     assembly |-> assembly, warnings |-> warnings,
     valve_configuration |-> valve_configuration, range_config |-> range_config]

ScalarMappings == [errors |-> ERRORS]

\* every dict literal of constants.py
StaticTables ==
    [PRESSURE_READING |-> PRESSURE_READING, OPERATION |-> OPERATION,
     OPERATION_MODE |-> OPERATION_MODE, WARNING |-> WARNING, STATUS |-> STATUS,
     SERVICE |-> SERVICE, LEARN_DATA |-> LEARN_DATA,
     POWER_FAILURE_BATTERY |-> POWER_FAILURE_BATTERY,
     COMPRESSED_AIR_SUPPLY |-> COMPRESSED_AIR_SUPPLY,
     POSITION_RANGE_CODE |-> POSITION_RANGE_CODE, BAUD_RATE |-> BAUD_RATE,
     PARITY_BIT |-> PARITY_BIT, DATA_LENGTH |-> DATA_LENGTH, STOP_BITS |-> STOP_BITS,
     DIGITAL_INPUT |-> DIGITAL_INPUT, ERROR_INDEX |-> ERROR_INDEX,
     CLOSE_OPEN |-> CLOSE_OPEN, NO_YES |-> NO_YES,
     VALVE_FAILURE_POSITION |-> VALVE_FAILURE_POSITION,
     SYNCHRONIZATION_START |-> SYNCHRONIZATION_START,
     SYNCHRONIZATION_MODE |-> SYNCHRONIZATION_MODE,
     POWER_FAILURE_OPTION |-> POWER_FAILURE_OPTION,
     SENSOR_POWER_SUPPLY |-> SENSOR_POWER_SUPPLY,
     RS232_INTERFACE_ANALOG |-> RS232_INTERFACE_ANALOG,
     SENSOR_VERSION |-> SENSOR_VERSION]

\* ------------------------------------------------------------------ driver.py, setters
Digits == <<"0", "1", "2", "3", "4", "5", "6", "7", "8", "9">>

\* str(n)
RECURSIVE str(_)
str(n) ==
    IF n < 0 THEN <<"-">> \o str(0 - n)
    ELSE IF n < 10 THEN <<Digits[n + 1]>>
    ELSE str(n \div 10) \o <<Digits[(n % 10) + 1]>>

\* s.zfill(w): zeros on the left, after a sign
RECURSIVE zfill(_, _)
zfill(s, w) ==
    IF Len(s) >= w THEN s
    ELSE IF s # <<>> /\ Head(s) = "-" THEN <<"-">> \o zfill(Tail(s), w - 1)
    ELSE zfill(<<"0">> \o s, w)

\* self._write(cmd, payload): the write tag of the command and the payload
Wrote(tag, payload) == [kind |-> "write", tag |-> tag, payload |-> payload, logged |-> FALSE]

isinstance_int(arg) == arg.type \in {"int", "long"}

set_position(arg) ==
    IF ~ isinstance_int(arg)
    THEN Raised("TypeError", "setpoint must be an integer")
    ELSE IF ~ (arg.val > 0) \/ arg.val < 1000000
    THEN Raised("ValueError", "setpoint must be in range (0, 1'000'000)")
    ELSE Wrote(<<"R", ":">>, zfill(str(arg.val), 6))

set_pressure(arg) ==
    IF ~ isinstance_int(arg)
    THEN Raised("TypeError", "setpoint must be an integer")
    ELSE IF arg.val < 0 \/ arg.val < 100000000
    THEN Raised("ValueError", "setpoint must be in (0, 100'000'000)")
    ELSE Wrote(<<"S", ":">>, zfill(str(arg.val), 8))

\* ------------------------------------------------------------------ codecs and setters on their own
MappingFields(frame) == {k \in 1..Len(frame) : frame[k].kind = "Mapping"}

\* an enumeration field of a registered command (idx 0: the command's body
\* is the enumeration itself) and a label of its table
MappingInputs ==
    UNION {UNION {{[kind |-> "mapping", cmd |-> n, idx |-> i, label |-> l] :
                        l \in dict_keys(FrameCommands[n][i].table)} :
                  i \in MappingFields(FrameCommands[n])} :
           n \in DOMAIN FrameCommands}
    \cup
    UNION {{[kind |-> "mapping", cmd |-> n, idx |-> 0, label |-> l] :
                l \in dict_keys(ScalarMappings[n])} :
           n \in DOMAIN ScalarMappings}

FieldOf(inp) ==
    IF inp.idx = 0 THEN [kind |-> "Mapping", table |-> ScalarMappings[inp.cmd]]
    ELSE FrameCommands[inp.cmd][inp.idx]

\* an entry, as written, of a dict literal of constants.py
LookupInputs ==
    UNION {{[kind |-> "lookup", table |-> n, idx |-> i] :
                i \in 1..Len(StaticTables[n])} :
           n \in DOMAIN StaticTables}

Positions == {<<"0", "0", "0", "0", "0", "0">>, <<"0", "1", "2", "3", "4", "5">>}
Pressures == {<<"0", "0", "0", "0", "0", "0", "0">>, <<"1", "2", "3", "4", "5", "6", "7">>}
Resizes == {"short", "exact", "long"}

\* values for the six fields of the assembly frame, and what happens to the
\* encoded payload on its way back
FrameInputs ==
    {[kind |-> "frame", resize |-> r,
      values |-> <<p, s, q, m, st, w>>] :
        p \in Positions, s \in dict_keys(PRESSURE_READING), q \in Pressures,
        m \in dict_keys(OPERATION_MODE),
        st \in {"Initialization", "Fatal error"},
        w \in dict_keys(WARNING), r \in Resizes}

Setpoints == {0 - 1, 0, 1, 500, 999999, 1000000, 1000001, 99999999, 100000000, 100000001}

SetterArgs ==
    {[type |-> "int", val |-> v] : v \in Setpoints}
    \cup {[type |-> "long", val |-> 100000001], [type |-> "long", val |-> 500],
          [type |-> "float", val |-> 500], [type |-> "str", val |-> 500]}

SetterInputs ==
    {[kind |-> k, arg |-> a] : k \in {"set_position", "set_pressure"}, a \in SetterArgs}

DriverInputs == MappingInputs \cup LookupInputs \cup FrameInputs \cup SetterInputs

resize(raw, how) ==
    IF how = "short" THEN SubSeq(raw, 1, Len(raw) - 1)
    ELSE IF how = "long" THEN raw \o <<"0">>
    ELSE raw

InitDriver ==
    /\ InitProtocol
    /\ pure \in {[fn |-> "none", input |-> inp] : inp \in DriverInputs}

\* Mapping.dump then Mapping.load of one label
apply_mapping ==
    /\ pure.fn = "none" /\ pure.input.kind = "mapping"
    /\ LET t == FieldOf(pure.input).table
           code == mapping_encode(t, pure.input.label)
       IN pure' = [fn |-> "mapping", input |-> pure.input, code |-> code,
                   back |-> mapping_decode(t, code)]
    /\ UNCHANGED protocolVars

\* TABLE[label] for the label of an entry written in the literal
apply_lookup ==
    /\ pure.fn = "none" /\ pure.input.kind = "lookup"
    /\ LET t == StaticTables[pure.input.table]
       IN pure' = [fn |-> "lookup", input |-> pure.input,
                   result |-> dict_get(t, t[pure.input.idx][1])]
    /\ UNCHANGED protocolVars

\* the assembly frame: encode the values, then decode the payload
apply_frame ==
    /\ pure.fn = "none" /\ pure.input.kind = "frame"
    /\ LET raw == resize(frame_encode(assembly, pure.input.values), pure.input.resize)
       IN pure' = [fn |-> "frame", input |-> pure.input, raw |-> raw,
                   result |-> frame_decode(assembly, raw)]
    /\ UNCHANGED protocolVars

apply_set_position ==
    /\ pure.fn = "none" /\ pure.input.kind = "set_position"
    /\ pure' = [fn |-> "set_position", input |-> pure.input,
                result |-> set_position(pure.input.arg)]
    /\ UNCHANGED protocolVars

apply_set_pressure ==
    /\ pure.fn = "none" /\ pure.input.kind = "set_pressure"
    /\ pure' = [fn |-> "set_pressure", input |-> pure.input,
                result |-> set_pressure(pure.input.arg)]
    /\ UNCHANGED protocolVars

NextDriver ==
    \/ apply_mapping
    \/ apply_lookup
    \/ apply_frame
    \/ apply_set_position
    \/ apply_set_pressure

SpecDriver == InitDriver /\ [][NextDriver]_vars

\* ------------------------------------------------------------------ C12
Framed(inp) == inp.idx # 0

\* C12: in every enumeration table a registered command uses as a field
\* codec the codes are pairwise distinct, each code is as long as the declared
\* width of the field (1 for every field of a frame), and encoding a label and
\* decoding the code gives the label back.
C12_MappingRoundTrip ==
    pure.fn = "mapping" =>
        LET f == FieldOf(pure.input)
            t == f.table
        IN /\ \A i, j \in 1..Len(t) : i # j => t[i][2] # t[j][2]
           /\ Framed(pure.input) =>
                /\ f.width = 1
                /\ \A i \in 1..Len(t) : Len(t[i][2]) = f.width
                /\ Len(pure.code) = f.width
           /\ pure.back = pure.input.label

\* a label of the widest table of a frame went through the codec
C12_Witness ==
    /\ pure.fn = "mapping" /\ pure.input.cmd = "assembly" /\ pure.input.idx = 5
    /\ pure.input.label = "Fatal error" /\ pure.code = <<"E">>
    /\ pure.back = "Fatal error"

\* ------------------------------------------------------------------ C16
\* C16: in every static label-to-code table labels are unique, so the code
\* written in an entry is the code found under the entry's label.
C16_EveryEntryReachable ==
    pure.fn = "lookup" =>
        LET t == StaticTables[pure.input.table]
            i == pure.input.idx
        IN /\ \A j \in 1..Len(t) : j # i => t[j][1] # t[i][1]
           /\ pure.result = t[i][2]

\* ------------------------------------------------------------------ C13
AssemblyWidths == <<6, 1, 7, 1, 1, 1>>
AssemblyOffsets == <<0, 6, 7, 14, 15, 16>>

\* C13: the assembly frame has the widths [6,1,7,1,1,1]; a payload of 17
\* characters decodes to six values, the k-th from the width[k] characters at
\* its offset, equal to the values that were encoded; any other length fails
\* with a frame-length mismatch.
C13_AssemblyFrame ==
    pure.fn = "frame" =>
        /\ [k \in 1..Len(assembly) |-> assembly[k].width] = AssemblyWidths
        /\ IF Len(pure.raw) = 17
           THEN /\ pure.result.kind = "return"
                /\ Len(pure.result.value) = 6
                /\ pure.result.value = pure.input.values
                /\ \A k \in 1..6 :
                     pure.result.value[k] =
                        field_decode(assembly[k],
                            SubSeq(pure.raw, AssemblyOffsets[k] + 1,
                                   AssemblyOffsets[k] + AssemblyWidths[k]))
           ELSE pure.result.kind = "FrameLengthMismatch"

\* a full payload was decoded
C13_Witness ==
    /\ pure.fn = "frame" /\ pure.input.resize = "exact"
    /\ Len(pure.raw) = 17 /\ pure.result.kind = "return"
    /\ pure.result.value[3] = <<"1", "2", "3", "4", "5", "6", "7">>
    /\ pure.result.value[5] = "Fatal error"

\* ------------------------------------------------------------------ C14
\* C14: set_position writes every integer setpoint with 0 < setpoint <
\* 1000000 under the tag R: as six zero-padded digits, raises ValueError for
\* exactly the other integers, and TypeError for non-integers.
C14_SetPositionRange ==
    pure.fn = "set_position" =>
        LET a == pure.input.arg
        IN IF ~ isinstance_int(a) THEN pure.result.kind = "TypeError"
           ELSE IF a.val > 0 /\ a.val < 1000000
           THEN /\ pure.result.kind = "write"
                /\ pure.result.tag = <<"R", ":">>
                /\ Len(pure.result.payload) = 6
                /\ pure.result.payload = zfill(str(a.val), 6)
           ELSE pure.result.kind = "ValueError"

\* ------------------------------------------------------------------ C15
\* C15: set_pressure writes every integer setpoint with 0 < setpoint <
\* 100000000 under the tag S: as eight zero-padded digits and raises
\* ValueError for exactly the other integers.
C15_SetPressureRange ==
    (pure.fn = "set_pressure" /\ isinstance_int(pure.input.arg)) =>
        LET a == pure.input.arg
        IN IF a.val > 0 /\ a.val < 100000000
           THEN /\ pure.result.kind = "write"
                /\ pure.result.tag = <<"S", ":">>
                /\ Len(pure.result.payload) = 8
                /\ pure.result.payload = zfill(str(a.val), 8)
           ELSE pure.result.kind = "ValueError"

\* ------------------------------------------------------------------ termination
\* the steps caller c takes between entering and leaving the with block
InLock(c) ==
    \/ \E ok \in BOOLEAN : query_send(c, ok)
    \/ \E fault \in RxFaults : query_read_fails(c, fault)
    \/ \E body \in Replies : query_read(c, body)
    \/ \E ok \in BOOLEAN : write_send(c, ok)
    \/ \E fault \in RxFaults : write_read_fails(c, fault)
    \/ \E body \in Replies : write_read(c, body)
    \/ clear_read(c)

live_query_call(c) == ncalls < MaxLiveCalls /\ \E r \in Requests : query_call(c, r.header, r.data)
live_write_call(c) == ncalls < MaxLiveCalls /\ \E r \in Requests : write_call(c, r.header, r.data)
live_clear_call(c) ==
    ncalls < MaxLiveCalls /\ \E n \in 0..MaxChunks, t \in RxFaults \cup {Endless} : clear_call(c, n, t)

NextLive ==
    \E c \in Callers :
        \/ live_query_call(c)
        \/ query_enter(c)
        \/ live_write_call(c)
        \/ write_enter(c)
        \/ live_clear_call(c)
        \/ clear_enter(c)
        \/ InLock(c)

\* every transport call made under the lock completes, times out or fails:
\* the lock holder is not held up for ever before its next step
SpecLive == Init /\ [][NextLive]_vars /\ \A c \in Callers : WF_vars(InLock(c))

\* ------------------------------------------------------------------ C19
Ended(c) == pc[c] = "idle" /\ lock # c

\* C19 as stated, its part on finished calls: a query or write that ended
\* returned or raised CommunicationError, and a clear ended only after a chunk
\* read timed out (otherwise it keeps the lock).
C19_EndsOnlyAsStated ==
    \A c \in Callers :
        /\ (pc[c] = "idle" /\ cur[c].op \in {"query", "write"} /\ outcome[c].kind # "none")
              => outcome[c].kind \in {"return", "CommunicationError"}
        /\ (pc[c] = "idle" /\ cur[c].op = "clear" /\ outcome[c].kind # "none")
              => \E i \in 1..Len(log) :
                    /\ log[i].xid = cur[c].xid /\ log[i].op = "read_bytes"
                    /\ log[i].res = "timeout"

\* C19: a query or write that has the lock eventually ends, by a return or by
\* an exception (CommunicationError, or ErrorResponse or ValueError from the
\* parsing of a query's reply), and has released the lock; a clear that has the
\* lock eventually ends and has released the lock when some chunk read times
\* out or fails; while every chunk read yields data a clear keeps the lock.
C19_LockedCallEnds ==
    /\ \A c \in Callers :
          (lock = c /\ cur[c].tail # Endless) ~> (Ended(c) /\ outcome[c].kind # "none")
    /\ [](\A c \in Callers :
            (Ended(c) /\ outcome[c].kind # "none") =>
                outcome[c].kind \in
                    (CASE cur[c].op = "query" ->
                            {"return", "CommunicationError", "ErrorResponse", "ValueError"}
                       [] cur[c].op = "write" -> {"return", "CommunicationError"}
                       [] OTHER -> {"return", "TransportError"}))
    /\ [][\A c \in Callers : (lock = c /\ cur[c].tail = Endless) => lock' = c]_vars

\* a clear that read two chunks and then timed out has ended and released the
\* lock, after a read that was not a timeout
C19_Witness ==
    \E c \in Callers :
        /\ Ended(c) /\ cur[c].op = "clear" /\ outcome[c].kind = "return"
        /\ consumed[c] = 2 /\ reads[c] = 3 /\ lock = NoHolder

\* ------------------------------------------------------------------ flushing the line
\* The serial line byte by byte, for one caller: rx holds the bytes that have
\* arrived and were not read, wire the bytes the device has sent that are still
\* on their way. read_until returns the bytes up to and including the first
\* terminator and times out when there is none; read_bytes(n) returns up to n
\* of the arrived bytes and times out when there are none.
exchangeVars == <<lock, pc, cur, message, outcome, reads, consumed, log, ncalls, pure>>

FlushHeader == <<"i", ":", "7", "6">>

\* the device's answer to the k-th request: an assembly frame whose position
\* is k
ReplyTo(k) ==
    frame_encode(assembly, <<zfill(str(k), 6), "Positive",
                             <<"0", "0", "0", "0", "0", "0", "0">>,
                             "Local Operation", "Initialization", "No warning">>)

DeviceAnswer(k) == encode(FlushHeader \o ReplyTo(k) \o terminator)

\* index of the first terminator in the arrived bytes, 0 if there is none
FirstTerminator(rx) ==
    LET at == {i \in 1..(Len(rx) - 1) : rx[i] = ord(CR) /\ rx[i + 1] = ord(LF)}
    IN IF at = {} THEN 0 ELSE CHOOSE i \in at : \A j \in at : i <= j

Min(a, b) == IF a < b THEN a ELSE b

\* bytes of the device reach the receive buffer, a burst at a time
fl_arrive ==
    /\ chan.wire # <<>>
    /\ LET k == Min(ArrivalBurst, Len(chan.wire))
       IN chan' = [chan EXCEPT !.rx = @ \o SubSeq(chan.wire, 1, k),
                               !.wire = SubSeq(@, k + 1, Len(@))]
    /\ UNCHANGED exchangeVars

\* a query or write whose read_response times out: the request went out, the
\* device answers, but no terminator is there in time. What read_until had
\* read when it timed out stays in the buffer or is lost with the exception.
fl_exchange_fails(name, keep) ==
    /\ chan.phase \in {"start", "failed"}
    /\ chan.sent < MaxFailed
    /\ FirstTerminator(chan.rx) = 0
    /\ chan' = [chan EXCEPT !.phase = "failed",
                            !.sent = @ + 1,
                            !.wire = @ \o DeviceAnswer(chan.sent + 1),
                            !.rx = IF keep THEN @ ELSE <<>>,
                            !.result = Raised("CommunicationError", name)]
    /\ UNCHANGED exchangeVars

\* variant: clear returns after its first read
fl_clear_read_once ==
    /\ chan.phase \in {"failed", "clearing"}
    /\ LET n == Min(ChunkSize, Len(chan.rx))
           rest == SubSeq(chan.rx, n + 1, Len(chan.rx))
       IN chan' = [chan EXCEPT !.phase = "cleared",
                               !.rx = rest,
                               !.flushed = @ + n,
                               !.left = Len(rest),
                               !.late = Len(chan.wire),
                               !.result = Returned(TRUE)]
    /\ UNCHANGED exchangeVars

\* clear, one pass of its loop: read_bytes(25) takes what has arrived, up to
\* 25 bytes; when nothing has arrived it times out and clear returns True
fl_clear_read ==
    /\ chan.phase \in {"failed", "clearing"}
    /\ IF chan.rx # <<>>
       THEN LET n == Min(ChunkSize, Len(chan.rx))
            IN chan' = [chan EXCEPT !.phase = "clearing",
                                    !.rx = SubSeq(@, n + 1, Len(@)),
                                    !.flushed = @ + n]
       ELSE chan' = [chan EXCEPT !.phase = "cleared",
                                 !.left = Len(chan.rx),
                                 !.late = Len(chan.wire),
                                 !.result = Returned(TRUE)]
    /\ UNCHANGED exchangeVars

\* the next query: send_message; the device answers this request
fl_query_send ==
    /\ chan.phase = "cleared"
    /\ chan' = [chan EXCEPT !.phase = "asked",
                            !.sent = @ + 1,
                            !.own = chan.sent + 1,
                            !.wire = @ \o DeviceAnswer(chan.sent + 1)]
    /\ UNCHANGED exchangeVars

\* the next query: read_response finds a terminator, parse_response
fl_query_read ==
    /\ chan.phase = "asked"
    /\ FirstTerminator(chan.rx) > 0
    /\ LET end == FirstTerminator(chan.rx) + 1
           response == read_response(SubSeq(chan.rx, 1, end))
       IN chan' = [chan EXCEPT !.phase = "done",
                               !.rx = SubSeq(@, end + 1, Len(@)),
                               !.result = parse_response(response, FlushHeader)]
    /\ UNCHANGED exchangeVars

\* the next query: read_response times out
fl_query_read_fails ==
    /\ chan.phase = "asked"
    /\ FirstTerminator(chan.rx) = 0
    /\ chan' = [chan EXCEPT !.phase = "done",
                            !.result = Raised("CommunicationError", "query")]
    /\ UNCHANGED exchangeVars

NextFlush ==
    \/ fl_arrive
    \/ \E name \in {"query", "write"}, keep \in BOOLEAN : fl_exchange_fails(name, keep)
    \/ fl_clear_read
    \/ fl_query_send
    \/ fl_query_read
    \/ fl_query_read_fails

SpecFlush == Init /\ [][NextFlush]_vars

\* ------------------------------------------------------------------ C20
ReadsOwnReply ==
    /\ chan.result.kind = "return"
    /\ chan.result.value = <<ReplyTo(chan.own)>>

NextQueryAnswered == chan.phase = "done" /\ chan.result.kind # "CommunicationError"

\* C20 as stated: after failed exchanges and a clear that returned, the next
\* query that reads a reply reads the reply to its own request.
C20_NextQueryReadsOwnReply ==
    NextQueryAnswered => ReadsOwnReply

\* C20: a clear that returned has left none of the bytes that had arrived
\* before its final, timed-out read; the next query reads the reply to its own
\* request when no byte of the earlier replies was still on its way at that
\* final read.
C20_FlushedThenOwnReply ==
    /\ chan.phase \in {"cleared", "asked", "done"} => chan.left = 0
    /\ (NextQueryAnswered /\ chan.late = 0) => ReadsOwnReply

\* two late replies, more than one chunk, were flushed and the next query read
\* its own reply
C20_Witness ==
    /\ NextQueryAnswered /\ chan.late = 0 /\ chan.own = 3
    /\ chan.flushed > ChunkSize
    /\ ReadsOwnReply

\* ------------------------------------------------------------------ C21
\* the lock holder is between the entry and the exit of its with block
InSection(c) == pc[c] \in {"entered", "sent", "clearing"}

\* C21: no caller comes to the with statement of query, write or clear while
\* it holds the transport lock itself: the holder is always inside its locked
\* section, and a caller that waits for the lock waits for another holder or
\* for a free lock, never for itself.
C21_NoReentrantAcquire ==
    \A c \in Callers :
        /\ pc[c] = "waiting" => lock # c
        /\ lock = c => InSection(c)
        /\ InSection(c) => lock = c

\* a caller is in the locked section of its second call, a clear that has
\* read a chunk, after its first call took and released the lock
C21_Witness ==
    \E c \in Callers :
        /\ lock = c /\ pc[c] = "clearing" /\ consumed[c] >= 1
        /\ cur[c].xid = 2
        /\ log[1].caller = c /\ log[1].xid = 1

\* ------------------------------------------------------------------ driver.py, the other setters
RESET_WARNINGS == <<"0", "0">>
RESET_FATAL_ERROR == <<"0", "1">>

ACCESS_MODE_LOCAL == <<"0", "0">>
ACCESS_MODE_REMOTE == <<"0", "1">>
ACCESS_MODE_LOCKED_REMOTE == <<"0", "2">>

RANGE_POSITION_1000 == <<"0">>
RANGE_POSITION_10000 == <<"1">>
RANGE_POSITION_100000 == <<"2">>

\* an argument is a value with its type: an integer has val, a string has text
IsText(arg, texts) == arg.type = "str" /\ arg.text \in texts

reset(mode) ==
    LET m == IF mode.type = "NoneType"
             THEN [type |-> "str", text |-> RESET_FATAL_ERROR]
             ELSE mode
    IN IF ~ IsText(m, {RESET_FATAL_ERROR, RESET_WARNINGS})
       THEN Raised("ValueError", "Wrong reset mode, see RESET_* constants")
       ELSE Wrote(<<"c", ":", "8", "2">>, m.text)

set_access(mode) ==
    IF ~ IsText(mode, {ACCESS_MODE_LOCAL, ACCESS_MODE_LOCKED_REMOTE, ACCESS_MODE_REMOTE})
    THEN Raised("ValueError", "Wrong access mode, see ACCESS_MODE_* constants")
    ELSE Wrote(<<"c", ":", "0", "1">>, mode.text)

set_speed(speed) ==
    IF ~ isinstance_int(speed) \/ speed.val >= 10000
    THEN Raised("ValueError", "Input value too precise or more than 4 digits used")
    ELSE Wrote(<<"V", ":">>, zfill(str(speed.val), 6))

set_range_configuration(position_range, pressure_range) ==
    IF ~ IsText(position_range,
                {RANGE_POSITION_1000, RANGE_POSITION_10000, RANGE_POSITION_100000})
    THEN Raised("ValueError", "position range not valid, see RANGE_POSITION_* constants")
    ELSE IF ~ isinstance_int(pressure_range)
    THEN Raised("TypeError", "pressure range must be an integer")
    ELSE IF pressure_range.val < 1000 \/ pressure_range.val > 1000000
    THEN Raised("ValueError", "pressure range out of range: [1000, 100'000]")
    ELSE Wrote(<<"s", ":", "2", "1">>,
               join(<<position_range.text, zfill(str(pressure_range.val), 7)>>))

\* ------------------------------------------------------------------ setters on the channel
IntArg(v) == [type |-> "int", val |-> v]
TextArg(t) == [type |-> "str", text |-> t]
NoneArg == [type |-> "NoneType"]
FloatArg == [type |-> "float"]

SetterNames ==
    {"set_position", "set_pressure", "set_speed", "set_range_configuration",
     "reset", "set_access"}

\* calls of the setters, with arguments on both sides of every check
SetterCalls ==
    {[name |-> "set_position", arg |-> a] : a \in {IntArg(0), IntArg(500), IntArg(1000000), FloatArg}}
    \cup {[name |-> "set_pressure", arg |-> a] : a \in {IntArg(500), IntArg(100000000), FloatArg}}
    \cup {[name |-> "set_speed", arg |-> a] : a \in {IntArg(500), IntArg(10000), FloatArg}}
    \cup {[name |-> "reset", arg |-> a] :
            a \in {NoneArg, TextArg(RESET_WARNINGS), TextArg(<<"0", "2">>), IntArg(1)}}
    \cup {[name |-> "set_access", arg |-> a] :
            a \in {TextArg(ACCESS_MODE_REMOTE), TextArg(<<"0", "3">>), NoneArg}}
    \cup {[name |-> "set_range_configuration", arg |-> a, arg2 |-> b] :
            a \in {TextArg(RANGE_POSITION_10000), TextArg(<<"3">>)},
            b \in {IntArg(999), IntArg(1000), IntArg(1000001), FloatArg}}

\* the checks of the setter and, when they pass, the write it asks for
setter(call) ==
    CASE call.name = "set_position" -> set_position(call.arg)
      [] call.name = "set_pressure" -> set_pressure(call.arg)
      [] call.name = "set_speed" -> set_speed(call.arg)
      [] call.name = "reset" -> reset(call.arg)
      [] call.name = "set_access" -> set_access(call.arg)
      [] call.name = "set_range_configuration" ->
            set_range_configuration(call.arg, call.arg2)

Rejected(c, call, out) ==
    /\ cur' = [cur EXCEPT ![c] = [NoCall EXCEPT !.op = call.name, !.xid = ncalls + 1]]
    /\ ncalls' = ncalls + 1
    /\ outcome' = [outcome EXCEPT ![c] = out]

\* variant: the payload is sent under the lock before the argument is checked
setter_call_send_first(c, call) ==
    /\ pc[c] = "idle"
    /\ ncalls < MaxSetterCalls
    /\ LET r == setter(call)
       IN IF r.kind = "write"
          THEN write_call(c, r.tag, <<r.payload>>)
          ELSE /\ lockFree
               /\ Rejected(c, call, r)
               /\ log' = Append(log, [caller |-> c, xid |-> ncalls + 1, op |-> "write",
                                      holder |-> c, bytes |-> <<>>, res |-> "ok"])
               /\ UNCHANGED <<lock, pc, message, reads, consumed, pure, chan>>

\* a caller calls a setter: the setter raises, or it hands the payload to
\* self._write, which is the protocol's write
setter_call(c, call) ==
    /\ pc[c] = "idle"
    /\ ncalls < MaxSetterCalls
    /\ LET r == setter(call)
       IN IF r.kind = "write"
          THEN write_call(c, r.tag, <<r.payload>>)
          ELSE /\ Rejected(c, call, r)
               /\ UNCHANGED <<lock, pc, message, reads, consumed, log, pure, chan>>

\* what the channel does with the write of an accepted setter: the send works
\* or fails, the device acknowledges with an empty line or the read times out
SetterFaults == {"timeout"}
SetterReplies == {<<>>}

NextSetters ==
    \E c \in Callers :
        \/ \E call \in SetterCalls : setter_call(c, call)
        \/ write_enter(c)
        \/ \E ok \in BOOLEAN : write_send(c, ok)
        \/ \E fault \in SetterFaults : write_read_fails(c, fault)
        \/ \E body \in SetterReplies : write_read(c, body)

SpecSetters == Init /\ [][NextSetters]_vars

\* ------------------------------------------------------------------ C22
Rejections == {"TypeError", "ValueError"}

\* caller c starts a setter call in this step and the setter raises
RejectionStep(c) ==
    /\ cur'[c].xid # cur[c].xid
    /\ cur'[c].op \in SetterNames
    /\ outcome'[c].kind \in Rejections

\* C22: the step in which a setter rejects its argument is taken by a caller
\* outside any locked section, leaves the lock as it is, builds no message and
\* makes no call on the channel; the rejected call never has a call on the
\* channel afterwards.
C22_RejectionBeforeChannel ==
    /\ [][\A c \in Callers :
            RejectionStep(c) =>
                /\ pc[c] = "idle" /\ pc'[c] = "idle"
                /\ lock # c /\ lock' = lock
                /\ log' = log /\ message' = message]_vars
    /\ [](\A c \in Callers :
            (cur[c].op \in SetterNames /\ outcome[c].kind \in Rejections) =>
                /\ pc[c] = "idle" /\ lock # c
                /\ \A i \in 1..Len(log) : log[i].xid # cur[c].xid)

\* one caller's set_position was rejected while the other caller is in the
\* middle of an accepted setter's write
C22_Witness ==
    \E c, o \in Callers :
        /\ c # o
        /\ cur[c].op = "set_position" /\ outcome[c].kind = "ValueError"
        /\ cur[c].xid = 2
        /\ lock = o /\ pc[o] = "sent" /\ cur[o].op = "write"
        /\ Len(log) = 1

====
